---- MODULE Spec2Model ----
\* A model of the Glassdoor scraper (skraped/glassdoor.py) and of the scraper
\* base class (skraped/scraper_base.py): the csv/pickle persistence and the
\* merge of ScraperBase, and the scrape pipeline of Glassdoor (pagination,
\* link collection, per-link extraction, save).
EXTENDS Integers, Sequences, FiniteSets, TLC

\* ------------------------------------------------------------------ bounds

\* Longest list of job records handed to save_csv / save_pickle / merge.
MaxLen == 2

\* ------------------------------------------------------------------ text

RECURSIVE CharsOf(_)
CharsOf(s) == IF s = "" THEN {} ELSE {Head(s)} \cup CharsOf(Tail(s))

\* The characters with a code point in 0..127 that a string of this module
\* can hold: what str.encode('ascii', 'ignore') keeps.  Every other
\* character is dropped.
AsciiChars ==
    CharsOf(" !\"#$%&'()*+,-./0123456789:;<=>?@ABCDEFGHIJKLMNOPQRSTUVWXYZ")
    \cup CharsOf("[\\]^_abcdefghijklmnopqrstuvwxyz{|}~\t\n\r\f")

\* s.encode('ascii', 'ignore').decode('utf-8')
RECURSIVE AsciiIgnore(_)
AsciiIgnore(s) ==
    IF s = "" THEN ""
    ELSE (IF Head(s) \in AsciiChars THEN Head(s) ELSE "") \o AsciiIgnore(Tail(s))

\* s.replace("\t", "\n")
RECURSIVE ReplaceTab(_)
ReplaceTab(s) ==
    IF s = "" THEN ""
    ELSE (IF Head(s) = "\t" THEN "\n" ELSE Head(s)) \o ReplaceTab(Tail(s))

\* ------------------------------------------------------------------ state

VARIABLES
    csv_file,   \* {output_path}/{output_path}.csv : [exists, rows]
    pkl_file,   \* {output_path}/{output_path}.pkl : [exists, intact, data]
    call,       \* the last ScraperBase operation: its argument and what it returned
    ext,        \* the last extract_job_details call: url, response, result
    site,       \* the job board: its chain of result pages
    keywords,   \* config['keywords']
    data_csv,   \* {output_path}/data.csv, the file save_to_csv appends to
    runs,       \* scrape runs started so far
    pc,         \* where the current scrape run is
    url,        \* self.url
    next_page_url, \* get_pages: next_page_url
    iter,       \* get_pages: iterations of range(page_limit) done
    pages,      \* get_pages: pages
    job_links,  \* scrape: job_links
    idx,        \* scrape: the position of the loop over job_links
    job_details, \* scrape: job_details
    log,        \* the requests of the current run, in order, and how each ended
    scrape_ret  \* what scrape returned

base_vars == <<csv_file, pkl_file, call, ext>>

run_vars ==
    <<pc, url, next_page_url, iter, pages, job_links, idx, job_details, log,
      scrape_ret>>

scrape_vars == <<site, keywords, data_csv, runs, run_vars>>

vars == <<base_vars, scrape_vars>>

\* ------------------------------------------------------------------ records

base_url == "https://www.glassdoor.com"

\* A job dictionary as extract_job_details builds it.
Job(title, link, id) ==
    [title |-> title, company |-> "Acme", job_link |-> base_url \o link,
     application_link |-> base_url, description |-> "desc",
     job_id |-> id, source |-> "Glassdoor"]

\* The job dictionaries the operations are called with: two versions of the
\* job "42" and a job whose apply control carried an empty id.
SampleJobs ==
    { Job("Dev", "/job/a", "42"), Job("Senior Dev", "/job/a", "42"),
      Job("Ops", "/job/b", "") }

RECURSIVE SeqsUpTo(_, _)
SeqsUpTo(S, n) ==
    IF n = 0 THEN {<<>>}
    ELSE LET shorter == SeqsUpTo(S, n - 1)
         IN  shorter \cup {Append(s, x) : s \in shorter, x \in S}

SampleLists == SeqsUpTo(SampleJobs, MaxLen)

\* ------------------------------------------------------------------ csv

fieldnames ==
    <<"TITLE", "COMPANY", "JOB LINK", "APPLICATION LINK", "DESCRIPTION",
      "JOB ID", "SOURCE">>

\* The dict save_csv hands to writer.writerow, as the line DictWriter writes:
\* the values in the order of fieldnames.
CsvRow(row) ==
    <<row.title, row.company, row.job_link, row.application_link,
      row.description, row.job_id, row.source>>

\* The dict load_csv appends for one line DictReader read under fieldnames.
CsvDict(line) ==
    [title |-> line[1], company |-> line[2], job_link |-> line[3],
     application_link |-> line[4], description |-> line[5],
     job_id |-> line[6], source |-> line[7]]

\* Everything save_csv writes on a run without failure: header, then the rows.
CsvLines(scrape_data) ==
    <<fieldnames>> \o [i \in 1..Len(scrape_data) |-> CsvRow(scrape_data[i])]

NoFile == [exists |-> FALSE, rows |-> <<>>]
NoPickle == [exists |-> FALSE, intact |-> FALSE, data |-> <<>>]

\* save_csv: open(..., "w") either fails, leaving the file as it was, or
\* truncates it; a failure while writing line k + 1 leaves the k lines
\* written before it.  Returns True after the last line, False on failure.
save_csv(scrape_data) ==
    LET lines == CsvLines(scrape_data)
    IN  \/ /\ csv_file' = csv_file                           \* open() raised
           /\ call' = [op |-> "save_csv", arg |-> scrape_data, stored |-> <<>>,
                       completed |-> FALSE, ret |-> FALSE, out |-> <<>>]
        \/ \E k \in 0..(Len(lines) - 1) :                    \* a write raised
           /\ csv_file' = [exists |-> TRUE, rows |-> SubSeq(lines, 1, k)]
           /\ call' = [op |-> "save_csv", arg |-> scrape_data, stored |-> <<>>,
                       completed |-> FALSE, ret |-> FALSE, out |-> <<>>]
        \/ /\ csv_file' = [exists |-> TRUE, rows |-> lines]
           /\ call' = [op |-> "save_csv", arg |-> scrape_data, stored |-> <<>>,
                       completed |-> TRUE, ret |-> TRUE, out |-> <<>>]

\* What load_csv returns: [] when open() raises; otherwise the dicts of the
\* lines after the first (line_count == 0 is skipped as the header), up to the
\* line at which a read raised (n lines were read), all of them when none did.
LoadCsv(file, opened, n) ==
    IF ~opened \/ ~file.exists THEN <<>>
    ELSE LET m == IF n < Len(file.rows) THEN n ELSE Len(file.rows)
             lines == SubSeq(file.rows, 2, m)
         IN  [i \in 1..Len(lines) |-> CsvDict(lines[i])]

load_csv ==
    \E opened \in BOOLEAN, n \in 0..(MaxLen + 1) :
        /\ n <= Len(csv_file.rows)
        /\ (~opened => n = 0)
        /\ call' = [op |-> "load_csv", arg |-> <<>>, stored |-> <<>>,
                    completed |-> opened /\ csv_file.exists /\ n = Len(csv_file.rows),
                    ret |-> TRUE, out |-> LoadCsv(csv_file, opened, n)]
        /\ UNCHANGED csv_file

\* ------------------------------------------------------------------ merge

\* dups[key] = value on a dict kept as the sequence of its items in insertion
\* order: an existing key keeps its place and takes the new value.
DictSet(dups, key, value) ==
    IF \E i \in 1..Len(dups) : dups[i][1] = key
    THEN [i \in 1..Len(dups) |-> IF dups[i][1] = key THEN <<key, value>> ELSE dups[i]]
    ELSE Append(dups, <<key, value>>)

RECURSIVE DictFrom(_, _)
DictFrom(dups, jobs) ==
    IF jobs = <<>> THEN dups
    ELSE DictFrom(DictSet(dups, Head(jobs).job_id, Head(jobs)), Tail(jobs))

\* A plausible slip: the rows of the csv file and the new rows are
\* concatenated without going through the dict.
MergeConcat(csv_data, scrape_data) == csv_data \o scrape_data

\* A plausible slip: a job_id that is already in the dict keeps its old job.
MergeKeepOld(csv_data, scrape_data) ==
    LET old == DictFrom(<<>>, csv_data)
        RECURSIVE Add(_, _)
        Add(d, jobs) ==
            IF jobs = <<>> THEN d
            ELSE Add(IF \E i \in 1..Len(d) : d[i][1] = Head(jobs).job_id
                     THEN d ELSE Append(d, <<Head(jobs).job_id, Head(jobs)>>),
                     Tail(jobs))
        dups == Add(old, scrape_data)
    IN  [i \in 1..Len(dups) |-> dups[i][2]]

\* The body of merge_scrape_data after load_csv returned csv_data.
Merge(csv_data, scrape_data) ==
    LET dups == DictFrom(DictFrom(<<>>, csv_data), scrape_data)
    IN  [i \in 1..Len(dups) |-> dups[i][2]]

merge_scrape_data(scrape_data) ==
    \E opened \in BOOLEAN, n \in 0..(MaxLen + 1) :
        /\ n <= Len(csv_file.rows)
        /\ (~opened => n = 0)
        /\ LET csv_data == LoadCsv(csv_file, opened, n)
           IN  call' = [op |-> "merge_scrape_data", arg |-> scrape_data,
                        stored |-> csv_data, completed |-> TRUE, ret |-> TRUE,
                        out |-> Merge(csv_data, scrape_data)]
        /\ UNCHANGED csv_file

\* ------------------------------------------------------------------ store spec

NoCall ==
    [op |-> "none", arg |-> <<>>, stored |-> <<>>, completed |-> FALSE,
     ret |-> FALSE, out |-> <<>>]

NoReturn == [returned |-> FALSE, is_list |-> FALSE, value |-> 0]

\* No scrape run has started; nothing is on disk.
InitFiles ==
    /\ csv_file = NoFile
    /\ pkl_file = NoPickle
    /\ data_csv = NoFile
    /\ call = NoCall
    /\ ext = [called |-> FALSE]
    /\ runs = 0
    /\ pc = "idle"
    /\ url = ""
    /\ next_page_url = ""
    /\ iter = 0
    /\ pages = <<>>
    /\ job_links = <<>>
    /\ idx = 0
    /\ job_details = <<>>
    /\ log = <<>>
    /\ scrape_ret = NoReturn

InitBase ==
    /\ InitFiles
    /\ site = [chain |-> 1, last |-> "nofooter", listing |-> TRUE]
    /\ keywords = "python developer"

SaveCsv ==
    \E d \in SampleLists : save_csv(d) /\ UNCHANGED <<pkl_file, ext, scrape_vars>>
LoadCsvCall == load_csv /\ UNCHANGED <<pkl_file, ext, scrape_vars>>
MergeCall ==
    \E d \in SampleLists :
        merge_scrape_data(d) /\ UNCHANGED <<pkl_file, ext, scrape_vars>>

NextStore == SaveCsv \/ LoadCsvCall \/ MergeCall

SpecStore == InitBase /\ [][NextStore]_vars

\* ------------------------------------------------------------------ pickle

\* save_pickle: open(..., "wb") either fails, leaving the file as it was, or
\* truncates it; pickle.dump then fails, leaving a file that does not load, or
\* writes the list.  No path of the function returns True: the try block has
\* no return, so the function always ends in the final "return False".
save_pickle(scrape_data) ==
    \/ /\ pkl_file' = pkl_file                                \* open() raised
       /\ call' = [op |-> "save_pickle", arg |-> scrape_data, stored |-> <<>>,
                   completed |-> FALSE, ret |-> FALSE, out |-> <<>>]
    \/ /\ pkl_file' = [exists |-> TRUE, intact |-> FALSE, data |-> <<>>]
       /\ call' = [op |-> "save_pickle", arg |-> scrape_data, stored |-> <<>>,
                   completed |-> FALSE, ret |-> FALSE, out |-> <<>>]
    \/ /\ pkl_file' = [exists |-> TRUE, intact |-> TRUE, data |-> scrape_data]
       /\ call' = [op |-> "save_pickle", arg |-> scrape_data, stored |-> <<>>,
                   completed |-> TRUE, ret |-> FALSE, out |-> <<>>]

\* load_pickle: the list that was dumped, or [] when open() or pickle.load
\* raises (no file, a file cut short by a failed dump, a read error).
load_pickle ==
    \E readable \in BOOLEAN :
        LET ok == readable /\ pkl_file.exists /\ pkl_file.intact
        IN  /\ call' = [op |-> "load_pickle", arg |-> <<>>, stored |-> <<>>,
                        completed |-> ok, ret |-> TRUE,
                        out |-> IF ok THEN pkl_file.data ELSE <<>>]
            /\ UNCHANGED pkl_file

SavePickle ==
    \E d \in SampleLists : save_pickle(d) /\ UNCHANGED <<csv_file, ext, scrape_vars>>
LoadPickle == load_pickle /\ UNCHANGED <<csv_file, ext, scrape_vars>>

NextPickle == SavePickle \/ LoadPickle

SpecPickle == InitBase /\ [][NextPickle]_vars

\* ------------------------------------------------------------------ fetcher

\* What requests.get did for one request: raised one of the exceptions
\* send_request handles, or returned a response with a status code and a body.
\* The body is kept as the document it parses to.
Raised(exc) == [exc |-> exc, status_code |-> 0, empty |-> TRUE]
Response(status_code, soup) ==
    [exc |-> "", status_code |-> status_code, empty |-> FALSE, soup |-> soup]
EmptyBody == [exc |-> "", status_code |-> 200, empty |-> TRUE]

FetchFailures ==
    { Raised("ConnectionError"), Raised("Timeout"), Raised("RequestException") }

\* send_request(url, 'get'): resp.text of a response with status 200; None
\* (here [none |-> TRUE]) for every other status and for the three exceptions.
send_request(outcome) ==
    IF outcome.exc = "" /\ outcome.status_code = 200
    THEN [none |-> FALSE, text |-> outcome]
    ELSE [none |-> TRUE]

\* ------------------------------------------------------------------ detail pages

Absent == [present |-> FALSE, text |-> ""]
Element(text) == [present |-> TRUE, text |-> text]

AttrNames == {"href", "data-job-url", "data-job-id"}
NoAttr == [has |-> FALSE, value |-> ""]
Attr(value) == [has |-> TRUE, value |-> value]

\* The children of a tag are text nodes here: [text |-> ...]; child_tags
\* are the names of its child elements.
NoCompany == [present |-> FALSE, children |-> <<>>]
NoApply ==
    [present |-> FALSE, name |-> "", attrs |-> [n \in AttrNames |-> NoAttr],
     child_tags |-> {}]

\* tag.text: the text nodes below the tag, concatenated.
RECURSIVE TagText(_)
TagText(children) ==
    IF children = <<>> THEN "" ELSE Head(children) \o TagText(Tail(children))

\* getattr(tag, name): Tag.__getattr__ is tag.find(name), the first child
\* ELEMENT of that name, never an attribute.
TagGetattr(tag, name) == name \in tag.child_tags

Titles == {Absent, Element("Devé")}
Companies ==
    { NoCompany,
      [present |-> TRUE, children |-> <<>>],
      [present |-> TRUE, children |-> <<"Acme">>],
      [present |-> TRUE, children |-> <<"Acme", " 4.2">>] }
Descs == {Absent, Element("Build\tthings")}
Applies ==
    {NoApply} \cup
    { [present |-> TRUE, name |-> nm, child_tags |-> ch,
       attrs |-> [n \in AttrNames |->
                    IF n \in has
                    THEN Attr(IF n = "data-job-id" THEN id ELSE "/partner/apply")
                    ELSE NoAttr]] :
        nm \in {"a", "button"}, ch \in {{}, {"span"}},
        has \in SUBSET AttrNames, id \in {"", "42"} }

\* The detail pages extract_job_details is tried on.
DetailPages ==
    { [title |-> t, company |-> c, apply |-> a, desc |-> d] :
        t \in Titles, c \in Companies, a \in Applies, d \in Descs }

NoJob ==
    [title |-> "", company |-> "", job_link |-> "", application_link |-> "",
     description |-> "", job_id |-> "", source |-> ""]

ReturnsNone == [status |-> "none", error |-> "", job |-> NoJob]
Raises(error) == [status |-> "raise", error |-> error, job |-> NoJob]
Returns(job) == [status |-> "record", error |-> "", job |-> job]

\* extract_job_details(job_url), given what the request for job_url did.
\* None when send_request returned None or an empty body; the second test,
\* "if not soup", never holds, a BeautifulSoup object being true.  The lookups
\* that follow are not guarded: a page without the company container, without
\* an apply control, or with a control that lacks data-job-id, raises.
extract_job_details(job_url, outcome) ==
    LET res == send_request(outcome)
    IN  IF res.none \/ res.text.empty THEN ReturnsNone       \* if not res
        ELSE
        LET soup == res.text.soup
            title == soup.title
            apply_btn == soup.apply
            description == soup.desc
        IN  \* [child for child in soup.find(...)]: iterating None
            IF ~soup.company.present THEN Raises("TypeError")
            ELSE
            LET company_container == soup.company.children
                company_name ==
                    IF company_container # <<>> THEN company_container[1]
                    ELSE TagText(soup.company.children)
            IN  \* getattr(apply_btn, 'href') on None
                IF ~apply_btn.present THEN Raises("AttributeError")
                ELSE
                LET application_link ==
                        IF TagGetattr(apply_btn, "href")
                        THEN apply_btn.attrs["href"]
                        ELSE IF TagGetattr(apply_btn, "data-job-url")
                        THEN apply_btn.attrs["data-job-url"]
                        ELSE Attr("")
                IN  IF ~application_link.has THEN Raises("KeyError")
                    \* apply_btn['data-job-id'] without the attribute
                    ELSE IF ~apply_btn.attrs["data-job-id"].has
                    THEN Raises("KeyError")
                    ELSE Returns(
                      [title |-> IF title.present
                                 THEN AsciiIgnore(title.text) ELSE "",
                       company |-> IF company_name # ""
                                   THEN AsciiIgnore(company_name) ELSE "",
                       job_link |-> job_url,
                       application_link |->
                           AsciiIgnore(base_url \o application_link.value),
                       description |-> IF description.present
                                       THEN AsciiIgnore(description.text) ELSE "",
                       job_id |-> apply_btn.attrs["data-job-id"].value,
                       source |-> "Glassdoor"])

DetailOutcomes ==
    FetchFailures \cup {Response(404, p) : p \in DetailPages}
    \cup {EmptyBody} \cup {Response(200, p) : p \in DetailPages}

ExtractCall ==
    /\ \E link \in {"/job/a"}, outcome \in DetailOutcomes :
           ext' = [called |-> TRUE, url |-> base_url \o link, outcome |-> outcome,
                   result |-> extract_job_details(base_url \o link, outcome)]
    /\ UNCHANGED <<csv_file, pkl_file, call, scrape_vars>>

SpecExtract == InitBase /\ [][ExtractCall]_vars

\* ------------------------------------------------------------------ search url

Uppercase == "ABCDEFGHIJKLMNOPQRSTUVWXYZ"
Lowercase == "abcdefghijklmnopqrstuvwxyz"

RECURSIVE LowerChar(_, _, _)
LowerChar(c, upper, lower) ==
    IF upper = "" THEN c
    ELSE IF Head(upper) = c THEN Head(lower)
    ELSE LowerChar(c, Tail(upper), Tail(lower))

\* s.lower()
RECURSIVE Lower(_)
Lower(s) ==
    IF s = "" THEN ""
    ELSE LowerChar(Head(s), Uppercase, Lowercase) \o Lower(Tail(s))

\* '+'.join(s.split(" "))
RECURSIVE PlusJoin(_)
PlusJoin(s) ==
    IF s = "" THEN ""
    ELSE (IF Head(s) = " " THEN "+" ELSE Head(s)) \o PlusJoin(Tail(s))

\* self.query_params, in insertion order.
query_params(kw) ==
    << <<"jobType", "">>, <<"typedKeyword", kw>>, <<"sc.keyword", Lower(kw)>>,
       <<"locT", "N">>, <<"locId", "130">>, <<"suggestChosen", "false">>,
       <<"clickSource", "searchBtn">>, <<"suggestCount", "0">> >>

RECURSIVE QueryTail(_)
QueryTail(params) ==
    IF params = <<>> THEN ""
    ELSE "&" \o Head(params)[1] \o "=" \o PlusJoin(Head(params)[2])
         \o QueryTail(Tail(params))

\* self.url as scrape builds it: popitem() takes the last parameter, which
\* goes first; the others follow in order.
SearchUrl(kw) ==
    LET params == query_params(kw)
        first_query == params[Len(params)]
    IN  "https://www.glassdoor.com/Job/jobs.htm?"
        \o first_query[1] \o "=" \o PlusJoin(first_query[2])
        \o QueryTail(SubSeq(params, 1, Len(params) - 1))

\* ------------------------------------------------------------------ the job board

\* Result pages the board can chain (page i < chain carries a next link).
MaxChain == 3
\* Scrape runs against the same output path.
MaxRuns == 2

\* page_limit as scrape passes it to get_pages.
ScrapePageLimit == 2

NextHref(i) == "/Job/jobs_IP" \o ToString(i) \o ".htm"
JobHref(i) == "/job/" \o ToString(i)

NoNext == [present |-> FALSE, anchor |-> FALSE, href |-> ""]

\* Result page i of the board: the footer (div#FooterPageNav.pageNavBar), its
\* li.next and the anchor in it, and the hrefs of the job anchors.  Page i
\* lists the jobs i and i + 1, so that two pages in a row share a job.
ResultPage(i) ==
    [ number |-> i,
      footer |-> i < site.chain \/ site.last # "nofooter",
      next |-> IF i < site.chain
               THEN [present |-> TRUE, anchor |-> TRUE, href |-> NextHref(i + 1)]
               ELSE IF site.last = "emptyhref"
               THEN [present |-> TRUE, anchor |-> TRUE, href |-> ""]
               ELSE IF site.last = "noanchor"
               THEN [present |-> TRUE, anchor |-> FALSE, href |-> ""]
               ELSE NoNext,
      links |-> IF site.listing THEN <<JobHref(i), JobHref(i + 1)>> ELSE <<>> ]

\* The page the board serves at a url: page 1 at the search url, page i at
\* the href the next link of page i - 1 carries.
PageAt(u) ==
    IF u = url THEN 1
    ELSE CHOOSE i \in 2..(MaxChain + 1) : u = base_url \o NextHref(i)

PageOutcomes(u) ==
    FetchFailures \cup {Response(503, ResultPage(PageAt(u))),
                        Response(200, ResultPage(PageAt(u)))}

\* The detail page of a job: its apply control carries the job's id.
JobPage(i) ==
    [title |-> Element("Dev " \o ToString(i)),
     company |-> [present |-> TRUE, children |-> <<"Acme">>],
     apply |-> [present |-> TRUE, name |-> "a", child_tags |-> {},
                attrs |-> [n \in AttrNames |->
                             IF n = "data-job-id" THEN Attr(ToString(i))
                             ELSE IF n = "href" THEN Attr("/partner/apply")
                             ELSE NoAttr]],
     desc |-> Element("Build\tthings")]

JobAt(u) == CHOOSE i \in 1..(MaxChain + 1) : u = base_url \o JobHref(i)

\* What a request for a job link can do: fail, or return the job's page, with
\* or without its company container.
JobOutcomes(u) ==
    FetchFailures \cup
    { Response(404, JobPage(JobAt(u))), Response(200, JobPage(JobAt(u))),
      Response(200, [JobPage(JobAt(u)) EXCEPT !.company = NoCompany]) }

\* A request as the log keeps it: the url, whether send_request returned a
\* body, and what the caller made of it ("page" in get_pages; "record", "none"
\* or "raise" in extract_job_details).
Request(u, outcome, made) ==
    [ev |-> "request", url |-> u, ok |-> ~send_request(outcome).none,
     made |-> made]

\* ------------------------------------------------------------------ scrape

InitScrape ==
    /\ InitFiles
    /\ site \in [chain : 1..MaxChain,
                 last : {"nofooter", "nonext", "emptyhref", "noanchor"},
                 listing : BOOLEAN]
    /\ keywords \in {"python developer", "Data"}

\* scrape, up to the call of get_pages: a new Glassdoor object builds its
\* search url; get_pages starts from it with no pages.
StartScrape ==
    /\ pc \in {"idle", "done", "raised"}
    /\ runs < MaxRuns
    /\ runs' = runs + 1
    /\ url' = SearchUrl(keywords)
    /\ next_page_url' = SearchUrl(keywords)
    /\ pages' = <<>>
    /\ iter' = 0
    /\ job_links' = <<>>
    /\ idx' = 0
    /\ job_details' = <<>>
    /\ log' = <<>>
    /\ scrape_ret' = NoReturn
    /\ pc' = "get_pages"
    /\ UNCHANGED <<base_vars, site, keywords, data_csv>>

\* A plausible slip: the loop runs once more than page_limit.
GetPagesOneMore(outcome) ==
    LET res == send_request(outcome)
        page_soup == res.text.soup
        more == iter + 1 <= ScrapePageLimit
    IN  /\ log' = Append(log, Request(next_page_url, outcome, "page"))
        /\ iter' = iter + 1
        /\ IF res.none
           THEN /\ pc' = IF more THEN "get_pages" ELSE "job_links"
                /\ UNCHANGED <<pages, next_page_url>>
           ELSE /\ pages' = Append(pages, page_soup)
                /\ IF ~page_soup.footer \/ ~page_soup.next.present
                   THEN /\ pc' = "job_links"
                        /\ UNCHANGED next_page_url
                   ELSE IF ~page_soup.next.anchor
                   THEN /\ pc' = "raised"
                        /\ UNCHANGED next_page_url
                   ELSE IF page_soup.next.href = ""
                   THEN /\ pc' = "job_links"
                        /\ next_page_url' = page_soup.next.href
                   ELSE /\ pc' = IF more THEN "get_pages" ELSE "job_links"
                        /\ next_page_url' = base_url \o page_soup.next.href

\* One iteration of the loop of get_pages, given what the request did; the
\* loop ends, and get_pages returns pages, on a break or after page_limit
\* iterations.  A failed request adds no page and does not end the loop.
GetPagesBody(outcome) ==
    LET res == send_request(outcome)
        page_soup == res.text.soup
        more == iter + 1 < ScrapePageLimit
    IN  /\ log' = Append(log, Request(next_page_url, outcome, "page"))
        /\ iter' = iter + 1
        /\ IF res.none
           THEN /\ pc' = IF more THEN "get_pages" ELSE "job_links"
                /\ UNCHANGED <<pages, next_page_url>>
           ELSE /\ pages' = Append(pages, page_soup)
                /\ IF ~page_soup.footer \/ ~page_soup.next.present
                   THEN /\ pc' = "job_links"                      \* break
                        /\ UNCHANGED next_page_url
                   ELSE IF ~page_soup.next.anchor                \* None['href']
                   THEN /\ pc' = "raised"
                        /\ UNCHANGED next_page_url
                   ELSE IF page_soup.next.href = ""
                   THEN /\ pc' = "job_links"                      \* break
                        /\ next_page_url' = page_soup.next.href
                   ELSE /\ pc' = IF more THEN "get_pages" ELSE "job_links"
                        /\ next_page_url' = base_url \o page_soup.next.href

GetPagesIter ==
    /\ pc = "get_pages"
    /\ \E outcome \in PageOutcomes(next_page_url) : GetPagesBody(outcome)
    /\ UNCHANGED <<base_vars, site, keywords, data_csv, runs, url, job_links,
                   idx, job_details, scrape_ret>>

\* get_job_links: the set of base_url + href over the job anchors of the pages.
RECURSIVE get_job_links(_)
get_job_links(pages_soup) ==
    IF pages_soup = <<>> THEN {}
    ELSE {base_url \o Head(pages_soup).links[k] :
              k \in 1..Len(Head(pages_soup).links)}
         \cup get_job_links(Tail(pages_soup))

\* list(job_links): the elements of the set in some order.
Orders(S) ==
    {s \in [1..Cardinality(S) -> S] : \A i, j \in 1..Cardinality(S) :
                                          i # j => s[i] # s[j]}

\* scrape, from the return of get_pages to the loop over the job links.
JobLinks ==
    /\ pc = "job_links"
    /\ IF pages = <<>>
       THEN /\ pc' = "done"
            /\ scrape_ret' = [returned |-> TRUE, is_list |-> FALSE, value |-> 0]
            /\ UNCHANGED job_links
       ELSE IF get_job_links(pages) = {}
       THEN /\ pc' = "done"
            /\ scrape_ret' = [returned |-> TRUE, is_list |-> TRUE, value |-> 0]
            /\ UNCHANGED job_links
       ELSE /\ pc' = "details"
            /\ job_links' \in Orders(get_job_links(pages))
            /\ UNCHANGED scrape_ret
    /\ idx' = 1
    /\ UNCHANGED <<base_vars, site, keywords, data_csv, runs, url,
                   next_page_url, iter, pages, job_details, log>>

\* One iteration of the loop over job_links: extract_job_details(link); None
\* is skipped, a record is appended, an exception leaves scrape.  After the
\* last link scrape saves, or returns when job_details is empty.
Details ==
    /\ pc = "details"
    /\ \E outcome \in JobOutcomes(job_links[idx]) :
         LET link == job_links[idx]
             info == extract_job_details(link, outcome)
             found == IF info.status = "record"
                      THEN Append(job_details, info.job) ELSE job_details
         IN  /\ log' = Append(log, Request(link, outcome, info.status))
             /\ job_details' = found
             /\ idx' = idx + 1
             /\ IF info.status = "raise"
                THEN pc' = "raised" /\ UNCHANGED scrape_ret
                ELSE IF idx < Len(job_links)
                THEN pc' = "details" /\ UNCHANGED scrape_ret
                ELSE IF found # <<>>
                THEN pc' = "save" /\ UNCHANGED scrape_ret
                ELSE /\ pc' = "done"
                     /\ scrape_ret' = [returned |-> TRUE, is_list |-> FALSE,
                                       value |-> 0]
    /\ UNCHANGED <<base_vars, site, keywords, data_csv, runs, url,
                   next_page_url, iter, pages, job_links>>

\* The row save_to_csv builds for one job.
GlassdoorRow(i) ==
    <<i.title, i.company, i.job_link, i.application_link,
      ReplaceTab(AsciiIgnore(i.description)), i.job_id, i.source>>

\* save_to_csv: open(..., 'a+') either fails or opens data.csv at its end;
\* the header and the rows are appended, up to the line at which a write
\* failed.  scrape then returns len(job_details).
save_to_csv(job_info) ==
    LET csv_list == [i \in 1..Len(job_info) |-> GlassdoorRow(job_info[i])]
        lines == <<fieldnames>> \o csv_list
        Failed == [op |-> "save_to_csv", arg |-> job_info, stored |-> <<>>,
                   completed |-> FALSE, ret |-> FALSE, out |-> <<>>]
    IN  \/ /\ data_csv' = data_csv                            \* open() raised
           /\ call' = Failed
        \/ \E k \in 0..(Len(lines) - 1) :                     \* a write raised
           /\ data_csv' = [exists |-> TRUE,
                           rows |-> data_csv.rows \o SubSeq(lines, 1, k)]
           /\ call' = Failed
        \/ /\ data_csv' = [exists |-> TRUE, rows |-> data_csv.rows \o lines]
           /\ call' = [Failed EXCEPT !.completed = TRUE, !.ret = TRUE]

Save ==
    /\ pc = "save"
    /\ save_to_csv(job_details)
    /\ pc' = "done"
    /\ scrape_ret' = [returned |-> TRUE, is_list |-> FALSE,
                      value |-> Len(job_details)]
    /\ UNCHANGED <<csv_file, pkl_file, ext, site, keywords, runs, url,
                   next_page_url, iter, pages, job_links, idx, job_details, log>>

NextPages == StartScrape \/ GetPagesIter

SpecPages == InitScrape /\ [][NextPages]_vars

NextScrape == StartScrape \/ GetPagesIter \/ JobLinks \/ Details \/ Save

SpecScrape == InitScrape /\ [][NextScrape]_vars

\* ------------------------------------------------------------------ claims

Ids(jobs) == {jobs[i].job_id : i \in 1..Len(jobs)}

\* The last record of jobs that has this job_id.
LastWith(jobs, id) ==
    jobs[CHOOSE i \in 1..Len(jobs) :
            /\ jobs[i].job_id = id
            /\ \A j \in (i + 1)..Len(jobs) : jobs[j].job_id # id]

Occurrences(jobs, id) == Cardinality({i \in 1..Len(jobs) : jobs[i].job_id = id})

NoDuplicateIds(jobs) == \A id \in Ids(jobs) : Occurrences(jobs, id) = 1

\* C1: what merge_scrape_data returns holds exactly one record for each job_id
\* that is in the rows loaded from the store or in the incoming list, and no
\* other; for a job_id of the incoming list that record is the last incoming
\* record with the id, otherwise it is the (last) stored record with the id.
C1_RightBiasedUnion ==
    call.op = "merge_scrape_data" =>
        LET merged == call.out
            stored == call.stored
            incoming == call.arg
        IN  /\ Ids(merged) = Ids(stored) \cup Ids(incoming)
            /\ NoDuplicateIds(merged)
            /\ \A i \in 1..Len(merged) :
                   merged[i] = IF merged[i].job_id \in Ids(incoming)
                               THEN LastWith(incoming, merged[i].job_id)
                               ELSE LastWith(stored, merged[i].job_id)

\* C1 witness: a merge in which a stored job_id came in again with another
\* record, twice, and another stored job_id did not come in.
C1_Witness ==
    /\ call.op = "merge_scrape_data"
    /\ \E id \in Ids(call.stored) \cap Ids(call.arg) :
           /\ LastWith(call.stored, id) # LastWith(call.arg, id)
           /\ Occurrences(call.arg, id) = 2
           /\ call.arg[1] # call.arg[2]
    /\ Ids(call.stored) \ Ids(call.arg) # {}

\* The merge was of a stored set S with the empty list or with S itself.
IdempotenceCase ==
    /\ call.op = "merge_scrape_data"
    /\ call.arg = <<>> \/ call.arg = call.stored

\* C2 as stated: merging S with the empty list, or with S, returns S, also
\* when several records of S share a job_id.
C2_MergeReturnsS == IdempotenceCase => call.out = call.stored

\* C2 amended: merging S with the empty list, or with S, returns one record
\* for each job_id of S, the last record of S with that id (same keys, same
\* winning values); the result is S itself exactly when no two records of S
\* share a job_id.
C2_MergeKeepsWinners ==
    IdempotenceCase =>
        LET merged == call.out
            S == call.stored
        IN  /\ Ids(merged) = Ids(S)
            /\ NoDuplicateIds(merged)
            /\ \A id \in Ids(S) : LastWith(merged, id) = LastWith(S, id)
            /\ (merged = S) <=> NoDuplicateIds(S)

\* C2 witness: S merged with itself, where two records of S share a job_id.
C2_Witness ==
    /\ IdempotenceCase
    /\ call.arg = call.stored
    /\ ~NoDuplicateIds(call.stored)
    /\ Len(call.out) < Len(call.stored)

\* C3: a save_csv that returned False left the csv file, when it held a
\* header and rows before the call, as it was before the call.
C3_FailedSaveLeavesStore ==
    [][(call'.op = "save_csv" /\ ~call'.ret /\ Len(csv_file.rows) > 1)
           => csv_file' = csv_file]_vars

\* C9: a save operation returns True exactly when its write completed.
C9_SaveReturnsOutcome ==
    call.op \in {"save_csv", "save_to_csv", "save_pickle"} =>
        (call.ret <=> call.completed)

\* The request for the detail page returned its page with status 200.
Fetched == ext.called /\ ext.outcome.exc = "" /\ ext.outcome.status_code = 200
               /\ ~ext.outcome.empty

\* C4: for a detail page that was fetched, whichever of the title, company,
\* apply and description elements it lacks, extract_job_details returns a
\* record, in which the field of each absent element is ''.
C4_MissingElementsDefault ==
    Fetched =>
        LET soup == ext.outcome.soup
            job == ext.result.job
        IN  /\ ext.result.status = "record"
            /\ ~soup.title.present => job.title = ""
            /\ ~soup.company.present => job.company = ""
            /\ ~soup.desc.present => job.description = ""
            /\ ~soup.apply.present => job.job_id = ""

\* The board chains 3 result pages: pages 1 and 2 carry a next link, page 3
\* has none.
ChainOfThree == site.chain = 3 /\ site.last \in {"nofooter", "nonext"}

\* get_pages has returned to scrape.
PagesReturned == pc = "job_links"

AllOk(requests) == \A i \in 1..Len(requests) : requests[i].ok

\* C6 as stated: on a chain of 3 result pages whose requests all succeed, the
\* get_pages call of scrape returns 3 pages and has issued no 4th request.
C6_ThreePagesCollected ==
    (PagesReturned /\ ChainOfThree /\ AllOk(log)) =>
        Len(pages) = 3 /\ Len(log) <= 3

\* C6 amended: on a chain of 3 result pages the get_pages call of scrape, which
\* passes page_limit=2, issues exactly 2 requests, none of them for page 3 or
\* beyond, and returns at most 2 pages: pages 1 and 2 when both requests
\* succeed.
C6_TwoPagesCollected ==
    (PagesReturned /\ ChainOfThree) =>
        /\ Len(log) = ScrapePageLimit
        /\ \A i \in 1..Len(log) : PageAt(log[i].url) <= 2
        /\ Len(pages) <= 2
        /\ AllOk(log) => pages = <<ResultPage(1), ResultPage(2)>>

\* C6 witness: get_pages returned on a chain of 3 pages after two successful
\* requests, page 2 (which carries a next link) being the last page fetched.
C6_Witness ==
    /\ PagesReturned /\ ChainOfThree /\ AllOk(log)
    /\ Len(pages) = 2
    /\ pages[2].next.present
    /\ next_page_url = base_url \o NextHref(3)

\* C10: in get_pages no request follows a request that failed.
C10_NoFetchAfterFailure ==
    pc \in {"get_pages", "job_links"} =>
        \A i, j \in 1..Len(log) : (i < j) => log[i].ok

LinkSet == {job_links[k] : k \in 1..Len(job_links)}

Requested(link) == \E i \in 1..Len(log) : log[i].url = link
FetchFailed(link) == \E i \in 1..Len(log) : log[i].url = link /\ ~log[i].ok
RecordsOf(link) ==
    Cardinality({k \in 1..Len(job_details) : job_details[k].job_link = link})

Extracted(link) ==
    \E i \in 1..Len(log) : log[i].url = link /\ log[i].ok /\ log[i].made = "record"

\* C5: when a scrape run is over in which the request for a job link failed,
\* every job link was processed, a link whose request failed has no record in
\* job_details, and a link whose request and extraction succeeded has exactly
\* one.
C5_FailedFetchDoesNotStopRun ==
    (pc \in {"done", "raised"} /\ \E l \in LinkSet : FetchFailed(l)) =>
        /\ \A l \in LinkSet : Requested(l)
        /\ \A l \in LinkSet : FetchFailed(l) => RecordsOf(l) = 0
        /\ \A l \in LinkSet : Extracted(l) => RecordsOf(l) = 1

DataRows(file) == SelectSeq(file.rows, LAMBDA line : line # fieldnames)

\* C7: whenever a scrape run has completed, data.csv holds at most one row
\* for each job_id.
C7_OneRowPerJobId ==
    pc = "done" =>
        LET rows == DataRows(data_csv)
        IN  \A i, j \in 1..Len(rows) : i # j => rows[i][6] # rows[j][6]

\* C8: every request for a job link is preceded, directly, by a wait for the
\* configured delay.
C8_DelayBeforeEachDetailFetch ==
    \A i \in 1..Len(log) :
        (log[i].ev = "request" /\ log[i].url \in LinkSet) =>
            i > 1 /\ log[i - 1].ev = "sleep"

====
